---- MODULE Spec2Model ----
(***************************************************************************)
(* Model of src/app.py: a Flask service with two handlers, upload_files    *)
(* (POST /upload) and query_documents (POST /query), sharing the module    *)
(* level dictionary vector_stores and the directory UPLOAD_FOLDER.         *)
(*                                                                         *)
(* Requests are handled by threads (app.run serves threaded), so the steps *)
(* of different requests interleave at every access to shared state: the   *)
(* files under UPLOAD_FOLDER and the dictionary vector_stores.             *)
(*                                                                         *)
(* External collaborators (PyPDFLoader, the text splitter, the embedding   *)
(* model, FAISS, the chat model) are modelled by their observable outcome: *)
(* they return or they raise.  A PDF's pages are identified by the upload  *)
(* that carried them, <<request, position in its file list>>.              *)
(*                                                                         *)
(* Neither file.save nor PyPDFLoader.load is atomic.  file.save opens the   *)
(* path for writing (truncating what is there) and writes the upload chunk *)
(* by chunk at its own offset; the loader opens the path and reads it      *)
(* chunk by chunk; other requests run between these steps.  A descriptor   *)
(* stays on the file it opened after os.remove has unlinked the name.      *)
(***************************************************************************)
EXTENDS Integers, Sequences, FiniteSets, TLC

\* ------------------------------------------------------------------ bounds
NumRequests == 2
MaxFiles == 2
\* Every uploaded file is written in this many chunks.
FileChunks == 2

Requests == 1..NumRequests

\* ------------------------------------------------------- file names, inputs
\* Names a client may give an uploaded file.
FileNames == {"a.pdf", "../a.pdf", "b.pdf", "notes.txt", ""}

\* str.endswith('.pdf') on the names above (app.py line 54).
EndsWithPdf(filename) == filename \in {"a.pdf", "../a.pdf", "b.pdf"}

\* bool(FileStorage) is bool(filename): the `file and ...` of line 54.
Truthy(file) == file.filename # ""

\* werkzeug's secure_filename on the names above: path separators become
\* spaces, whitespace runs become "_", and leading dots and underscores are
\* stripped, so "../a.pdf" -> ".._a.pdf" -> "a.pdf".
secure_filename(filename) ==
    CASE filename = "a.pdf"     -> "a.pdf"
      [] filename = "../a.pdf"  -> "a.pdf"
      [] filename = "b.pdf"     -> "b.pdf"
      [] filename = "notes.txt" -> "notes.txt"
      [] OTHER                  -> ""

\* os.path.join(app.config['UPLOAD_FOLDER'], filename): the path is named by
\* the sanitized file name inside the one upload folder.
file_path(file) == secure_filename(file.filename)

\* An uploaded file: its client-side name and whether its bytes parse as PDF.
UploadedFiles ==
    [filename : {"a.pdf"}, valid : BOOLEAN]
    \cup [filename : {"../a.pdf", "b.pdf"}, valid : {TRUE}]
    \cup [filename : {"notes.txt", ""}, valid : {FALSE}]

\* request.files.getlist('files'); the empty list is a request without a
\* 'files' part.
FileLists == UNION {[1..n -> UploadedFiles] : n \in 0..MaxFiles}

\* Values uuid.uuid4() may return, as opaque identifiers.
Uuids == 1..NumRequests

BodyKeys == {"query", "session_id"}

\* The JSON body of a /query request: malformed JSON, or a truthy scalar (a
\* number, true), or an object with some of the two keys, or an array with
\* some of the two strings as elements.  Falsy bodies (null, 0, false, "",
\* [], {}) all fail `not data` alike and are the bodies with no keys.
\* session_id is the value under that key: a hashable value (a string) or an
\* unhashable one (a JSON array or object).
Bodies ==
    {[kind |-> "malformed", keys |-> {}, hashable |-> TRUE, session_id |-> 1]}
    \cup {[kind |-> "scalar", keys |-> {}, hashable |-> TRUE, session_id |-> 1]}
    \cup {[kind |-> "array", keys |-> ks, hashable |-> TRUE, session_id |-> 1] :
             ks \in SUBSET BodyKeys}
    \cup {[kind |-> "object", keys |-> ks, hashable |-> TRUE, session_id |-> 1] :
             ks \in SUBSET {"query"}}
    \cup {[kind |-> "object", keys |-> ks \cup {"session_id"}, hashable |-> h,
           session_id |-> s] :
             ks \in SUBSET {"query"}, h \in BOOLEAN, s \in Uuids}

\* ------------------------------------------------------------------- state
VARIABLES
    vector_stores,   \* session id -> index (the documents it was built from)
    upload_folder,   \* path under UPLOAD_FOLDER -> the file (inode) it names
    inodes,          \* file (inode) -> its bytes, a sequence of chunks
    issued,          \* identifiers uuid4 has returned
    req              \* per request: the handler's inputs, locals and response

vars == <<vector_stores, upload_folder, inodes, issued, req>>

NoBody == [kind |-> "none", keys |-> {}, hashable |-> TRUE, session_id |-> 1]

IdleReq ==
    [kind |-> "none", pc |-> "idle",
     files |-> <<>>, i |-> 0, fd |-> <<0, 0>>, written |-> 0, buffer |-> <<>>,
     saved_paths |-> <<>>, all_documents |-> <<>>,
     vector_store |-> <<>>, k |-> 0, session_id |-> 0,
     body |-> NoBody, retrievals |-> 0, llm_calls |-> 0,
     status |-> 0, escaped |-> FALSE, raised |-> "none"]

Init ==
    /\ vector_stores = <<>>
    /\ upload_folder = <<>>
    /\ inodes = <<>>
    /\ issued = {}
    /\ req = [r \in Requests |-> IdleReq]

\* ----------------------------------------------------------------- helpers
\* return jsonify(...), status: the handler itself answers.
Respond(rec, status) ==
    [rec EXCEPT !.pc = "done", !.status = status]

\* The handler answers from its except clause (lines 83-85, 129-131).
RespondCaught(rec, exc) ==
    [rec EXCEPT !.pc = "done", !.status = 500, !.raised = exc]

\* An exception leaves the handler; Flask answers for it with `status`.
Escape(rec, exc, status) ==
    [rec EXCEPT !.pc = "done", !.status = status, !.escaped = TRUE, !.raised = exc]

\* A chunk of a file that no upload wrote (a gap left by a write past the
\* end of a truncated file).
Hole == <<0, 0>>

\* The complete bytes of the file at position j of request r's list.
WholeFile(r, j) == [c \in 1..FileChunks |-> <<r, j>>]

\* No open descriptor.
NoFd == <<0, 0>>

\* The file that open(path, ...) returns a descriptor for: the one the path
\* names, or for a missing path a new one (named after its creator).
OpenedIno(folder, path, creator) ==
    IF path \in DOMAIN folder THEN folder[path] ELSE creator

\* open(path, 'wb') inside file.save, on the directory: a missing path now
\* names the new file.
Open(folder, path, creator) ==
    [p \in DOMAIN folder \cup {path} |->
        IF p = path THEN OpenedIno(folder, path, creator) ELSE folder[p]]

\* open(path, 'wb') inside file.save, on the files: the opened file is
\* truncated in place (or created empty).
Truncate(files, ino) ==
    [n \in DOMAIN files \cup {ino} |-> IF n = ino THEN <<>> ELSE files[n]]

\* One chunk written at position pos of the byte sequence, past its end if
\* another writer truncated the file meanwhile.
WriteAt(data, pos, chunk) ==
    [c \in 1..(IF pos > Len(data) THEN pos ELSE Len(data)) |->
        IF c = pos THEN chunk
        ELSE IF c <= Len(data) THEN data[c]
        ELSE Hole]

\* write() on the descriptor `ino`, whether or not a path still names it.
Write(files, ino, pos, chunk) ==
    [files EXCEPT ![ino] = WriteAt(@, pos, chunk)]

\* os.remove(path)
Remove(folder, path) ==
    [p \in DOMAIN folder \ {path} |-> folder[p]]

\* The files that stay: those a path names or a request holds open.
Kept(folder, files, reqs) ==
    LET named == {folder[p] : p \in DOMAIN folder}
        held == {reqs[r].fd : r \in DOMAIN reqs}
    IN  [n \in DOMAIN files \cap (named \cup held) |-> files[n]]

\* PyPDFLoader raised.
PdfError == <<-1, -1>>

\* Pages read from bytes that are no single upload's file.
MixedPages == <<0, 0>>

\* The PDF parser on the bytes the loader read: the pages of a complete valid
\* PDF; an error for empty, truncated or invalid bytes; for bytes of full
\* length pieced together from several writes the parser may fail or may
\* return pages of the mixture.
Parse(data) ==
    IF Len(data) < FileChunks
      THEN {PdfError}
    ELSE IF data[1] # Hole /\ data = WholeFile(data[1][1], data[1][2])
      THEN IF req[data[1][1]].files[data[1][2]].valid
             THEN {data[1]} ELSE {PdfError}
    ELSE {PdfError, MixedPages}

\* A slip in the store write: the dictionary is rebuilt around the new entry.
SetItem_rebuild(store, key, value) ==
    [s \in {key} |-> value]

\* vector_stores[session_id] = vector_store
SetItem(store, key, value) ==
    [s \in DOMAIN store \cup {key} |-> IF s = key THEN value ELSE store[s]]

\* A slip in the identifier source: values may repeat.
uuid4_repeating == Uuids

\* str(uuid.uuid4()): a value never returned before.
uuid4 == Uuids \ issued

\* Line 54: `file and file.filename.endswith('.pdf')`.
IsPdf(file) == Truthy(file) /\ EndsWithPdf(file.filename)

\* ------------------------------------------------------------ POST /upload
\* Lines 41-51: the request arrives; the 'files' part and the file names are
\* checked; the loop over the files starts.
upload_begin(r) ==
    /\ req[r].pc = "idle"
    /\ \E fl \in FileLists :
         LET rec == [IdleReq EXCEPT !.kind = "upload", !.files = fl]
         IN  req' = [req EXCEPT ![r] =
                 IF fl = <<>>
                   THEN Respond(rec, 400)
                 ELSE IF \A j \in 1..Len(fl) : fl[j].filename = ""
                   THEN Respond(rec, 400)
                 ELSE [rec EXCEPT !.pc = "loop", !.i = 1]]
    /\ UNCHANGED <<vector_stores, upload_folder, inodes, issued>>

\* Lines 53-54, 63-64: the next file is not a PDF by name; the handler
\* returns 400 from inside the loop.
upload_reject(r) ==
    /\ req[r].pc = "loop"
    /\ ~IsPdf(req[r].files[req[r].i])
    /\ req' = [req EXCEPT ![r] = Respond(@, 400)]
    /\ UNCHANGED <<vector_stores, upload_folder, inodes, issued>>

\* Lines 54-57: the next file is a PDF by name; file.save opens the path
\* under the sanitized name for writing, or raises (outside any try).
upload_save_open(r) ==
    /\ req[r].pc = "loop"
    /\ IsPdf(req[r].files[req[r].i])
    /\ LET path == file_path(req[r].files[req[r].i])
           ino == OpenedIno(upload_folder, path, <<r, req[r].i>>)
       IN  \/ /\ upload_folder' = Open(upload_folder, path, <<r, req[r].i>>)
              /\ inodes' = Truncate(inodes, ino)
              /\ req' = [req EXCEPT ![r] =
                     [@ EXCEPT !.pc = "write", !.written = 0, !.fd = ino]]
           \/ /\ req' = [req EXCEPT ![r] = Escape(@, "save", 500)]
              /\ UNCHANGED <<upload_folder, inodes>>
    /\ UNCHANGED <<vector_stores, issued>>

\* Lines 57-58: file.save writes the next chunk at its own offset; after the
\* last chunk it closes the file and returns, and the path is recorded.  A
\* write that raises (outside any try) leaves the file as it is by then.
upload_save_write(r) ==
    /\ req[r].pc = "write"
    /\ LET path == file_path(req[r].files[req[r].i])
           pos == req[r].written + 1
       IN  \/ /\ req' = [req EXCEPT ![r] =
                     IF pos = FileChunks
                       THEN [@ EXCEPT !.written = 0, !.fd = NoFd, !.pc = "load",
                                      !.saved_paths = Append(@, path)]
                       ELSE [@ EXCEPT !.written = pos]]
              /\ inodes' = Kept(upload_folder,
                                Write(inodes, req[r].fd, pos, <<r, req[r].i>>),
                                req')
           \/ /\ req' = [req EXCEPT ![r] =
                     [Escape(@, "save", 500) EXCEPT !.fd = NoFd]]
              /\ inodes' = Kept(upload_folder, inodes, req')
    /\ UNCHANGED <<vector_stores, upload_folder, issued>>

\* Lines 61-62: PyPDFLoader checks that the path names a file and opens it
\* for reading; a missing path raises (outside any try).
upload_load_open(r) ==
    /\ req[r].pc = "load"
    /\ LET path == file_path(req[r].files[req[r].i])
       IN  req' = [req EXCEPT ![r] =
               IF path \notin DOMAIN upload_folder
                 THEN Escape(@, "load", 500)
               ELSE [@ EXCEPT !.pc = "read", !.fd = upload_folder[path],
                              !.buffer = <<>>]]
    /\ UNCHANGED <<vector_stores, upload_folder, inodes, issued>>

\* Line 62: the loader reads the next chunk of the open file as it is now;
\* at the end of the file it parses what it read, the file is closed, and an
\* error is raised outside any try.  Then the loop goes on to the next file
\* or ends.
upload_load_read(r) ==
    /\ req[r].pc = "read"
    /\ LET data == inodes[req[r].fd]
           pos == Len(req[r].buffer) + 1
           read == IF pos <= Len(data)
                     THEN Append(req[r].buffer, data[pos])
                     ELSE req[r].buffer
           next == req[r].i + 1
       IN  IF pos <= Len(data) /\ pos < FileChunks
             THEN req' = [req EXCEPT ![r] = [@ EXCEPT !.buffer = read]]
             ELSE \E pages \in Parse(read) :
                    req' = [req EXCEPT ![r] =
                      IF pages = PdfError
                        THEN [Escape(@, "load", 500) EXCEPT
                                 !.fd = NoFd, !.buffer = <<>>]
                      ELSE [@ EXCEPT !.all_documents = Append(@, pages),
                                     !.fd = NoFd, !.buffer = <<>>,
                                     !.i = next,
                                     !.pc = IF next > Len(req[r].files)
                                              THEN "build" ELSE "loop"]]
    /\ inodes' = Kept(upload_folder, inodes, req')
    /\ UNCHANGED <<vector_stores, upload_folder, issued>>

\* Lines 66-71: splitting, embedding and index building, inside the try:
\* the index of all loaded documents, or an exception answered with 500.
upload_build(r) ==
    /\ req[r].pc = "build"
    /\ \/ req' = [req EXCEPT ![r] =
              [@ EXCEPT !.vector_store = req[r].all_documents,
                        !.pc = "cleanup", !.k = 1]]
       \/ req' = [req EXCEPT ![r] = RespondCaught(@, "build")]
    /\ UNCHANGED <<vector_stores, upload_folder, inodes, issued>>

\* Lines 74-75: os.remove of the next saved path, inside the try; a path
\* that is no longer there raises and is answered with 500.
upload_cleanup(r) ==
    /\ req[r].pc = "cleanup"
    /\ LET path == req[r].saved_paths[req[r].k]
           next == req[r].k + 1
       IN  IF path \in DOMAIN upload_folder
             THEN /\ upload_folder' = Remove(upload_folder, path)
                  /\ inodes' = Kept(upload_folder', inodes, req)
                  /\ req' = [req EXCEPT ![r] =
                         [@ EXCEPT !.k = next,
                                   !.pc = IF next > Len(req[r].saved_paths)
                                            THEN "create" ELSE "cleanup"]]
             ELSE /\ req' = [req EXCEPT ![r] = RespondCaught(@, "remove")]
                  /\ UNCHANGED <<upload_folder, inodes>>
    /\ UNCHANGED <<vector_stores, issued>>

\* Lines 78-81: a fresh session id, the store entry, the 200 response.
upload_create(r) ==
    /\ req[r].pc = "create"
    /\ \E sid \in uuid4 :
         /\ issued' = issued \cup {sid}
         /\ vector_stores' = SetItem(vector_stores, sid, req[r].vector_store)
         /\ req' = [req EXCEPT ![r] =
                [Respond(@, 200) EXCEPT !.session_id = sid]]
    /\ UNCHANGED <<upload_folder, inodes>>

upload_files(r) ==
    \/ upload_begin(r)
    \/ upload_reject(r)
    \/ upload_save_open(r)
    \/ upload_save_write(r)
    \/ upload_load_open(r)
    \/ upload_load_read(r)
    \/ upload_build(r)
    \/ upload_cleanup(r)
    \/ upload_create(r)

\* ------------------------------------------------------------- POST /query
\* Line 92: `not data or 'query' not in data or 'session_id' not in data`,
\* for an object (its keys) or an array (its elements).
MissingFields(body) ==
    \/ body.keys = {}
    \/ "query" \notin body.keys
    \/ "session_id" \notin body.keys

\* Lines 89-101: the request arrives; the body is parsed and checked and the
\* session is looked up.  get_json raises BadRequest on malformed JSON;
\* `'query' not in data` raises TypeError on a truthy scalar;
\* data['session_id'] raises TypeError on an array; `session_id not in
\* vector_stores` raises TypeError on an unhashable value.  None of the four
\* is inside the try.
query_begin(r) ==
    /\ req[r].pc = "idle"
    /\ \E b \in Bodies :
         LET rec == [IdleReq EXCEPT !.kind = "query", !.body = b]
         IN  req' = [req EXCEPT ![r] =
                 IF b.kind = "malformed"
                   THEN Escape(rec, "get_json", 400)
                 ELSE IF b.kind = "scalar"
                   THEN Escape(rec, "contains", 500)
                 ELSE IF MissingFields(b)
                   THEN Respond(rec, 400)
                 ELSE IF b.kind = "array"
                   THEN Escape(rec, "subscript", 500)
                 ELSE IF ~b.hashable
                   THEN Escape(rec, "unhashable", 500)
                 ELSE IF b.session_id \notin DOMAIN vector_stores
                   THEN Respond(rec, 404)
                 ELSE [rec EXCEPT !.pc = "chain",
                                  !.vector_store = vector_stores[b.session_id]]]
    /\ UNCHANGED <<vector_stores, upload_folder, inodes, issued>>

\* Lines 105-120: the chain and its chat model are constructed, inside the
\* try; no call to the model is made yet.
query_chain(r) ==
    /\ req[r].pc = "chain"
    /\ \/ req' = [req EXCEPT ![r] = [@ EXCEPT !.pc = "retrieve"]]
       \/ req' = [req EXCEPT ![r] = RespondCaught(@, "chain")]
    /\ UNCHANGED <<vector_stores, upload_folder, inodes, issued>>

\* Lines 122-123: one similarity search on the session's index.
query_retrieve(r) ==
    /\ req[r].pc = "retrieve"
    /\ \/ req' = [req EXCEPT ![r] =
              [@ EXCEPT !.pc = "invoke", !.retrievals = @ + 1]]
       \/ req' = [req EXCEPT ![r] =
              [RespondCaught(@, "retrieve") EXCEPT !.retrievals = @ + 1]]
    /\ UNCHANGED <<vector_stores, upload_folder, inodes, issued>>

\* A slip in the query path: the model is called again when it raises.
query_invoke_retry(r) ==
    /\ req[r].pc = "invoke"
    /\ req[r].llm_calls < 3
    /\ \/ req' = [req EXCEPT ![r] =
              [Respond(@, 200) EXCEPT !.llm_calls = @ + 1]]
       \/ req' = [req EXCEPT ![r] = [@ EXCEPT !.llm_calls = @ + 1]]
    /\ UNCHANGED <<vector_stores, upload_folder, inodes, issued>>

\* A slip in the query path: the session is dropped once it was answered.
query_invoke_pop(r) ==
    /\ req[r].pc = "invoke"
    /\ \/ req' = [req EXCEPT ![r] =
              [Respond(@, 200) EXCEPT !.llm_calls = @ + 1]]
       \/ req' = [req EXCEPT ![r] =
              [RespondCaught(@, "invoke") EXCEPT !.llm_calls = @ + 1]]
    /\ vector_stores' =
           [s \in DOMAIN vector_stores \ {req[r].body.session_id} |->
               vector_stores[s]]
    /\ UNCHANGED <<upload_folder, inodes, issued>>

\* Lines 125-131: one call of the chat model, answered 200, or 500 when it
\* raises.
query_invoke(r) ==
    /\ req[r].pc = "invoke"
    /\ \/ req' = [req EXCEPT ![r] =
              [Respond(@, 200) EXCEPT !.llm_calls = @ + 1]]
       \/ req' = [req EXCEPT ![r] =
              [RespondCaught(@, "invoke") EXCEPT !.llm_calls = @ + 1]]
    /\ UNCHANGED <<vector_stores, upload_folder, inodes, issued>>

query_documents(r) ==
    \/ query_begin(r)
    \/ query_chain(r)
    \/ query_retrieve(r)
    \/ query_invoke(r)

\* ----------------------------------------------------------- specification
Next == \E r \in Requests : upload_files(r) \/ query_documents(r)

Spec == Init /\ [][Next]_vars

\* ------------------------------------------------------------------ claims
IsUpload(r) == req[r].kind = "upload"
IsQuery(r) == req[r].kind = "query"
Finished(r) == req[r].pc = "done"

\* The documents of all files of request r, in submission order.
OwnDocuments(r) == [j \in 1..Len(req[r].files) |-> <<r, j>>]

\* The query passed the missing-field check and the session lookup.
PassedLookup(r) ==
    /\ IsQuery(r)
    /\ \/ req[r].pc \in {"chain", "retrieve", "invoke"}
       \/ req[r].raised \in {"chain", "retrieve", "invoke"}
       \/ req[r].status = 200

\* C1: an upload whose file list holds a file not named *.pdf, at any
\* position, is answered 400 and creates no session.
C1_NonPdfRejected ==
    \A r \in Requests :
        (/\ IsUpload(r) /\ Finished(r)
         /\ \E j \in 1..Len(req[r].files) :
                ~EndsWithPdf(req[r].files[j].filename))
        => (req[r].status = 400 /\ req[r].session_id = 0)

\* C2: a query whose body holds both 'query' and 'session_id', with a
\* session_id that is no key of the session store, is answered 404 and makes
\* no retrieval and no model call.
C2_UnknownSession404 ==
    \A r \in Requests :
        (/\ IsQuery(r) /\ Finished(r)
         /\ req[r].body.kind = "object"
         /\ BodyKeys \subseteq req[r].body.keys
         /\ ~(req[r].body.hashable
              /\ req[r].body.session_id \in DOMAIN vector_stores))
        => (/\ req[r].status = 404
            /\ req[r].retrievals = 0
            /\ req[r].llm_calls = 0)

\* C3: every session id returned in a 200 upload response is a key of the
\* session store mapped to the index that upload built, in every later state,
\* and a query that looked a session up holds exactly the stored index.
C3_ReturnedSessionKept ==
    /\ \A r \in Requests :
           (IsUpload(r) /\ req[r].status = 200)
           => (/\ req[r].session_id \in DOMAIN vector_stores
               /\ vector_stores[req[r].session_id] = req[r].vector_store)
    /\ \A r \in Requests :
           PassedLookup(r)
           => (/\ req[r].body.session_id \in DOMAIN vector_stores
               /\ req[r].vector_store = vector_stores[req[r].body.session_id])

\* Witness of C3: an upload was answered 200 and a later query on its session
\* id was answered 200.
C3_Witness ==
    \E u, q \in Requests :
        /\ IsUpload(u) /\ req[u].status = 200
        /\ IsQuery(q) /\ req[q].status = 200
        /\ req[q].body.session_id = req[u].session_id

\* C4: once an upload has finished, whatever its status, none of the
\* temporary files it saved is left in the upload folder.
C4_CleanupGuaranteed ==
    \A r \in Requests :
        (IsUpload(r) /\ Finished(r))
        => \A p \in DOMAIN upload_folder :
               \A c \in 1..Len(inodes[upload_folder[p]]) :
                   inodes[upload_folder[p]][c][1] # r

\* C5: the uploads that reached session creation each own one key of the
\* session store: the keys are pairwise distinct, each maps to its request's
\* index, and the store holds as many keys as there were such uploads.
C5_NoLostInsert ==
    LET created == {r \in Requests : IsUpload(r) /\ req[r].status = 200}
    IN  /\ \A r1, r2 \in created :
               r1 # r2 => req[r1].session_id # req[r2].session_id
        /\ \A r \in created :
               /\ req[r].session_id \in DOMAIN vector_stores
               /\ vector_stores[req[r].session_id] = req[r].vector_store
        /\ Cardinality(DOMAIN vector_stores) = Cardinality(created)

\* Witness of C5: two uploads were both answered 200.
C5_Witness ==
    \E r1, r2 \in Requests :
        /\ r1 # r2
        /\ IsUpload(r1) /\ req[r1].status = 200
        /\ IsUpload(r2) /\ req[r2].status = 200
        /\ Cardinality(DOMAIN vector_stores) = 2

\* C6: uploads share nothing but the session store: an upload loads only
\* bytes it saved itself, the file it has just saved is still its own when it
\* loads it, loading fails only on its own unparseable file, and removal
\* fails only on a path it has itself removed before.
C6_RequestsIsolated ==
    \A r \in Requests :
        IsUpload(r) =>
            /\ \A j \in 1..Len(req[r].all_documents) :
                   req[r].all_documents[j][1] = r
            /\ req[r].pc = "load" =>
                   LET path == file_path(req[r].files[req[r].i])
                   IN  /\ path \in DOMAIN upload_folder
                       /\ inodes[upload_folder[path]] = WholeFile(r, req[r].i)
            /\ req[r].raised = "load" => ~req[r].files[req[r].i].valid
            /\ req[r].raised = "remove" =>
                   \E j \in 1..(req[r].k - 1) :
                       req[r].saved_paths[j] = req[r].saved_paths[req[r].k]

\* C7: no exception leaves upload_files or query_documents: every finished
\* request was answered by the handler itself, with 200, 400, 404 or 500.
C7_NoExceptionEscapes ==
    \A r \in Requests :
        Finished(r) =>
            /\ ~req[r].escaped
            /\ req[r].status \in {200, 400, 404, 500}

\* C8: an upload adds an entry to the session store exactly when it answers
\* 200, that entry is the index of the documents of all its files in
\* submission order, and a failure of splitting, embedding, index building or
\* cleanup is answered 500 with no entry added.
C8_IngestionAtomic ==
    \A r \in Requests :
        (IsUpload(r) /\ Finished(r)) =>
            /\ req[r].status = 200 <=> req[r].session_id # 0
            /\ req[r].status = 200 =>
                   /\ req[r].session_id \in DOMAIN vector_stores
                   /\ vector_stores[req[r].session_id] = OwnDocuments(r)
            /\ req[r].raised \in {"build", "remove"} =>
                   (req[r].status = 500 /\ req[r].session_id = 0)

\* C9: the session store only grows: no step removes a key or rebinds one,
\* and every step of a /query request leaves the store as it was.
C9_StoreOnlyGrows ==
    [][/\ \A s \in DOMAIN vector_stores :
              /\ s \in DOMAIN vector_stores'
              /\ vector_stores'[s] = vector_stores[s]
       /\ \A r \in Requests :
              (req'[r].kind = "query" /\ req'[r] # req[r])
              => vector_stores' = vector_stores]_vars

\* Witness of C9: a query on an existing session was answered while the
\* store still holds that session.
C9_Witness ==
    \E q \in Requests :
        /\ IsQuery(q) /\ Finished(q)
        /\ req[q].llm_calls = 1
        /\ req[q].body.session_id \in DOMAIN vector_stores

\* C10: a query is one pass: at most one retrieval and at most one model
\* call, the model call only after a successful retrieval, both only after
\* the field check and the session lookup passed; a query answered 400 or 404
\* made neither, and a failed model call is answered 500 after that one call.
C10_SinglePass ==
    \A r \in Requests :
        IsQuery(r) =>
            /\ req[r].retrievals <= 1
            /\ req[r].llm_calls <= 1
            /\ req[r].llm_calls = 1 =>
                   (req[r].retrievals = 1 /\ req[r].raised # "retrieve")
            /\ req[r].retrievals = 1 =>
                   /\ req[r].body.kind = "object"
                   /\ BodyKeys \subseteq req[r].body.keys
                   /\ req[r].body.hashable
                   /\ req[r].body.session_id \in DOMAIN vector_stores
            /\ req[r].status \in {400, 404} =>
                   (req[r].retrievals = 0 /\ req[r].llm_calls = 0)
            /\ req[r].raised = "invoke" =>
                   (Finished(r) /\ req[r].status = 500 /\ req[r].llm_calls = 1)

\* Witness of C10: a query whose model call raised was answered 500.
C10_Witness ==
    \E r \in Requests :
        /\ IsQuery(r) /\ Finished(r)
        /\ req[r].raised = "invoke"
        /\ req[r].status = 500

====
